---- MODULE Spec2Model ----
(***************************************************************************)
(* GroqTranslator (manga_translator/translators/groq.py): the per-segment  *)
(* request/response pipeline, its sliding-window conversation, its usage   *)
(* counters and the reply clean-up / JSON extraction / fallback.           *)
(*                                                                         *)
(* Text is a sequence of one-character strings, so the regular             *)
(* expressions and json.loads are computed character by character.         *)
(***************************************************************************)
EXTENDS Integers, Sequences, FiniteSets, TLC

VARIABLES
    CONTEXT_RETENTION,  \* class attribute read from the environment
    MAX_CONTEXT,        \* class attribute read from the environment
    messages,           \* self.messages
    token_count,        \* self.token_count
    token_count_last,   \* self.token_count_last
    pc,                 \* where _translate stands: idle, loop, awaiting
    to_lang,            \* argument of the running _translate
    queries,            \* argument of the running _translate
    pos,                \* position of the for loop in queries
    results,            \* local list of the running _translate
    outcome,            \* how the last _translate ended
    batchStart,         \* calls issued before the running _translate began
    callLog             \* every chat-completion call issued, oldest first

vars == <<CONTEXT_RETENTION, MAX_CONTEXT, messages, token_count,
          token_count_last, pc, to_lang, queries, pos, results, outcome,
          batchStart, callLog>>

(* ------------------------------ bounds --------------------------------- *)
\* largest CONTEXT_LENGTH the environment is given
MaxCtx == 3
\* chat-completion calls issued over the adapter's lifetime
MaxCalls == 2
\* segments in one translate call
MaxBatch == 2
\* calls issued in the reply-pipeline specification
MaxParseCalls == 1
\* length of the string value s of a generated {"translated": s} reply
MaxStrLen == 2

(* ------------------------------ characters ----------------------------- *)
QUOTE == "\""
BACKSLASH == "\\"
LBRACE == "{"
RBRACE == "}"

\* the word `translated`
Translated == <<"t", "r", "a", "n", "s", "l", "a", "t", "e", "d">>
ThinkOpen == <<"<", "t", "h", "i", "n", "k", ">">>
ThinkClose == <<"<", "/", "t", "h", "i", "n", "k", ">">>

\* \s of the re module, as far as a TLA+ string can spell it
ReSpace == {" ", "\t", "\n", "\r", "\f"}
\* whitespace json.loads skips between tokens
JsonSpace == {" ", "\t", "\n", "\r"}
\* characters a strict JSON string may not hold unescaped
JsonControl == {"\t", "\n", "\r", "\f"}
Digits == {"0", "1", "2", "3", "4", "5", "6", "7", "8", "9"}
\* the argument of str.strip in the fallback
StripChars == {" ", "'", QUOTE, LBRACE, RBRACE}

(* ------------------------------ text helpers --------------------------- *)
\* does p occur in s starting at index i
StartsWithAt(s, i, p) ==
    /\ i >= 1
    /\ i + Len(p) - 1 <= Len(s)
    /\ \A k \in 1..Len(p) : s[i + k - 1] = p[k]

\* least index >= i where p occurs in s, 0 when there is none
FindFrom(s, i, p) ==
    LET hits == {j \in i..Len(s) : StartsWithAt(s, j, p)}
    IN IF hits = {} THEN 0 ELSE CHOOSE j \in hits : \A k \in hits : j <= k

\* s[i:] of Python, for 1 <= i
Tail1(s, i) == IF i > Len(s) THEN <<>> ELSE SubSeq(s, i, Len(s))

\* first index >= i of s whose character is outside ws (Len(s)+1 if none)
SkipSet(s, i, ws) ==
    LET rest == {j \in i..Len(s) : s[j] \notin ws}
    IN IF rest = {} THEN Len(s) + 1
       ELSE CHOOSE j \in rest : \A k \in rest : j <= k

(* re.sub(r'<think>.*?</think>', '', raw, flags=re.DOTALL) *)
RECURSIVE StripThinkFrom(_, _), StripThinkAt(_, _, _)
StripThinkFrom(s, i) ==
    IF i > Len(s) THEN <<>>
    ELSE StripThinkAt(s, i, IF StartsWithAt(s, i, ThinkOpen)
                            THEN FindFrom(s, i + Len(ThinkOpen), ThinkClose)
                            ELSE 0)

\* close is where the block opened at i closes, 0 when no block does
StripThinkAt(s, i, close) ==
    IF close # 0 THEN StripThinkFrom(s, close + Len(ThinkClose))
    ELSE <<s[i]>> \o StripThinkFrom(s, i + 1)

StripThink(raw) == StripThinkFrom(raw, 1)

(* re.search(r'\{.*?\}', cleaned, flags=re.DOTALL); group(0) or cleaned *)
\* the match from open to close, or cleaned when there is no match
MatchOrAll(cleaned, open, close) ==
    IF close # 0 THEN SubSeq(cleaned, open, close) ELSE cleaned

\* \{ was found at open (0: nowhere); .*?\} ends at the first } after it
ExtractFrom(cleaned, open) ==
    MatchOrAll(cleaned, open,
               IF open = 0 THEN 0 ELSE FindFrom(cleaned, open + 1, <<RBRACE>>))

ExtractJsonStr(cleaned) == ExtractFrom(cleaned, FindFrom(cleaned, 1, <<LBRACE>>))

(* ------------------------------ json.loads ----------------------------- *)
\* a decoded JSON value: t is its Python type, s the text of a str,
\* kv the key/value pairs of a dict in source order
JStr(s) == [t |-> "str", s |-> s, kv |-> <<>>]
JOther(t) == [t |-> t, s |-> <<>>, kv |-> <<>>]
JDict(kv) == [t |-> "dict", s |-> <<>>, kv |-> kv]

PFail == [ok |-> FALSE, val |-> JOther("NoneType"), next |-> 0]
POk(v, n) == [ok |-> TRUE, val |-> v, next |-> n]

\* the character an escape \e stands for; "" when \e is not an escape.
\* \b is spelled "<BS>"; \uXXXX escapes are outside the replies modelled.
Unescape(e) ==
    CASE e = QUOTE -> QUOTE
      [] e = BACKSLASH -> BACKSLASH
      [] e = "/" -> "/"
      [] e = "n" -> "\n"
      [] e = "t" -> "\t"
      [] e = "r" -> "\r"
      [] e = "f" -> "\f"
      [] e = "b" -> "<BS>"
      [] OTHER -> ""

\* scan a string body from j (the opening quote already consumed)
RECURSIVE ScanString(_, _, _)
ScanString(s, j, acc) ==
    IF j > Len(s) THEN PFail
    ELSE IF s[j] = QUOTE THEN POk(JStr(acc), j + 1)
    ELSE IF s[j] = BACKSLASH
         THEN IF j + 1 > Len(s) \/ Unescape(s[j + 1]) = "" THEN PFail
              ELSE ScanString(s, j + 2, Append(acc, Unescape(s[j + 1])))
    ELSE IF s[j] \in JsonControl THEN PFail
    ELSE ScanString(s, j + 1, Append(acc, s[j]))

\* the character of s at j, "" outside s
CharAt(s, j) == IF j >= 1 /\ j <= Len(s) THEN s[j] ELSE ""

\* (0|[1-9]\d*) at a: the index after it, 0 when there is none
NumInt(s, a) ==
    IF CharAt(s, a) = "0" THEN a + 1
    ELSE IF CharAt(s, a) \in Digits THEN SkipSet(s, a, Digits)
    ELSE 0

\* (\.\d+)? at b: the index after it
NumFrac(s, b) ==
    IF b # 0 /\ CharAt(s, b) = "." /\ CharAt(s, b + 1) \in Digits
    THEN SkipSet(s, b + 1, Digits) ELSE b

\* \d+ of an exponent at g, the exponent having begun at c
NumExpDigits(s, c, g) ==
    IF CharAt(s, g) \in Digits THEN SkipSet(s, g, Digits) ELSE c

\* ([eE][+-]?\d+)? at c: the index after it
NumExp(s, c) ==
    IF c # 0 /\ CharAt(s, c) \in {"e", "E"}
    THEN NumExpDigits(s, c, IF CharAt(s, c + 1) \in {"+", "-"} THEN c + 2 ELSE c + 1)
    ELSE c

\* -?(0|[1-9]\d*)(\.\d+)?([eE][+-]?\d+)? starting at i: the index after
\* the number, 0 when no number starts at i
ScanNumber(s, i) ==
    NumExp(s, NumFrac(s, NumInt(s, IF CharAt(s, i) = "-" THEN i + 1 ELSE i)))

\* the Python type of the number s[i..n-1]
NumberValue(s, i, n) ==
    IF n = 0 THEN PFail
    ELSE POk(JOther(IF \E k \in i..(n - 1) : s[k] \in {".", "e", "E"}
                    THEN "float" ELSE "int"), n)

JsonLiterals ==
    { <<<<"n", "u", "l", "l">>, "NoneType">>,
      <<<<"t", "r", "u", "e">>, "bool">>,
      <<<<"f", "a", "l", "s", "e">>, "bool">>,
      <<<<"N", "a", "N">>, "float">>,
      <<<<"I", "n", "f", "i", "n", "i", "t", "y">>, "float">>,
      <<<<"-", "I", "n", "f", "i", "n", "i", "t", "y">>, "float">> }

\* a literal or a number at i; lits are the literals that start there
LiteralOrNumber(s, i, lits) ==
    IF lits # {}
    THEN POk(JOther((CHOOSE x \in lits : TRUE)[2]),
             i + Len((CHOOSE x \in lits : TRUE)[1]))
    ELSE NumberValue(s, i, ScanNumber(s, i))

RECURSIVE ParseValue(_, _), ParseMembers(_, _, _), ParseItems(_, _)
RECURSIVE AfterKey(_, _, _), AfterColon(_, _, _, _), AfterMember(_, _, _, _)
RECURSIVE AfterItem(_, _), AfterItemAt(_, _)

\* a dict opened before j: empty, or its members
DictFrom(s, j) ==
    IF j <= Len(s) /\ s[j] = RBRACE THEN POk(JDict(<<>>), j + 1)
    ELSE ParseMembers(s, j, <<>>)

\* a list opened before j: empty, or its items
ListFrom(s, j) ==
    IF j <= Len(s) /\ s[j] = "]" THEN POk(JOther("list"), j + 1)
    ELSE ParseItems(s, j)

\* one JSON value starting exactly at i
ParseValue(s, i) ==
    IF i > Len(s) THEN PFail
    ELSE IF s[i] = QUOTE THEN ScanString(s, i + 1, <<>>)
    ELSE IF s[i] = LBRACE THEN DictFrom(s, SkipSet(s, i + 1, JsonSpace))
    ELSE IF s[i] = "[" THEN ListFrom(s, SkipSet(s, i + 1, JsonSpace))
    ELSE LiteralOrNumber(s, i, {l \in JsonLiterals : StartsWithAt(s, i, l[1])})

\* "key" : value (, "key" : value)* } with the key's quote expected at i
ParseMembers(s, i, kv) ==
    IF i > Len(s) \/ s[i] # QUOTE THEN PFail
    ELSE AfterKey(s, kv, ScanString(s, i + 1, <<>>))

\* the key is scanned: the colon is expected at c
AfterKey(s, kv, key) ==
    IF ~key.ok THEN PFail
    ELSE AfterColon(s, kv, key, SkipSet(s, key.next, JsonSpace))

AfterColon(s, kv, key, c) ==
    IF c > Len(s) \/ s[c] # ":" THEN PFail
    ELSE AfterMember(s, kv, key, ParseValue(s, SkipSet(s, c + 1, JsonSpace)))

\* the member's value v is parsed: a comma or the closing brace follows
AfterMember(s, kv, key, v) ==
    IF ~v.ok THEN PFail
    ELSE LET e == SkipSet(s, v.next, JsonSpace)
         IN IF e > Len(s) THEN PFail
            ELSE IF s[e] = RBRACE
                 THEN POk(JDict(Append(kv, [k |-> key.val.s, v |-> v.val])), e + 1)
            ELSE IF s[e] = ","
                 THEN ParseMembers(s, SkipSet(s, e + 1, JsonSpace),
                                   Append(kv, [k |-> key.val.s, v |-> v.val]))
            ELSE PFail

\* value (, value)* ] with the first value expected at i
ParseItems(s, i) == AfterItem(s, ParseValue(s, i))

AfterItem(s, v) ==
    IF ~v.ok THEN PFail ELSE AfterItemAt(s, SkipSet(s, v.next, JsonSpace))

\* an item is parsed: a comma or the closing bracket is expected at e
AfterItemAt(s, e) ==
    IF e > Len(s) THEN PFail
    ELSE IF s[e] = "]" THEN POk(JOther("list"), e + 1)
    ELSE IF s[e] = "," THEN ParseItems(s, SkipSet(s, e + 1, JsonSpace))
    ELSE PFail

\* the value v parsed from json_str, provided only whitespace follows it
WholeText(json_str, v) ==
    IF v.ok /\ SkipSet(json_str, v.next, JsonSpace) > Len(json_str)
    THEN v ELSE PFail

\* json.loads(json_str): ok = FALSE stands for json.JSONDecodeError
JsonLoads(json_str) ==
    WholeText(json_str, ParseValue(json_str, SkipSet(json_str, 1, JsonSpace)))

(* ------------------------------ fallback ------------------------------- *)
\* the match of ^\s*"?translated"?\s*:\s* has reached e, where the colon
\* must stand
KeyPrefixAt(json_str, b, e) ==
    IF StartsWithAt(json_str, b, Translated)
       /\ e <= Len(json_str) /\ json_str[e] = ":"
    THEN Tail1(json_str, SkipSet(json_str, e + 1, ReSpace))
    ELSE json_str

\* "?translated"? from b, then \s*
KeyPrefixFrom(json_str, b) ==
    KeyPrefixAt(json_str, b,
        SkipSet(json_str,
                IF CharAt(json_str, b + Len(Translated)) = QUOTE
                THEN b + Len(Translated) + 1 ELSE b + Len(Translated),
                ReSpace))

\* the leading \s* has ended at a
KeyPrefixAfterSpace(json_str, a) ==
    KeyPrefixFrom(json_str, IF CharAt(json_str, a) = QUOTE THEN a + 1 ELSE a)

(* re.sub(r'^\s*"?translated"?\s*:\s*', '', json_str) *)
StripKeyPrefix(json_str) ==
    KeyPrefixAfterSpace(json_str, SkipSet(json_str, 1, ReSpace))

\* s without its characters outside the kept positions' span
StripSpan(s, keep) ==
    IF keep = {} THEN <<>>
    ELSE SubSeq(s, CHOOSE j \in keep : \A k \in keep : j <= k,
                   CHOOSE j \in keep : \A k \in keep : j >= k)

(* str.strip(chars) *)
PyStrip(s, chars) == StripSpan(s, {j \in 1..Len(s) : s[j] \notin chars})

Fallback(json_str) == PyStrip(StripKeyPrefix(json_str), StripChars)

\* step 8: the parsed value, or the fallback record on JSONDecodeError
DataOf(json_str, loaded) ==
    IF loaded.ok THEN loaded.val
    ELSE JDict(<<[k |-> Translated, v |-> JStr(Fallback(json_str))]>>)

\* steps 5-7: the candidate text json_str of the reply raw
JsonStrOf(raw) == ExtractJsonStr(StripThink(raw))

\* step 8 on the candidate
LoadOrFallback(json_str) == DataOf(json_str, JsonLoads(json_str))

\* steps 5-8 of _request_translation: the value bound to `data`
ParseReply(raw) == LoadOrFallback(JsonStrOf(raw))

\* the last of the positions hits of kv, the value a dict keeps for a key
LastValue(kv, hits) ==
    IF hits = {} THEN [ok |-> TRUE, val |-> JStr(<<>>)]
    ELSE [ok |-> TRUE,
          val |-> kv[CHOOSE j \in hits : \A k \in hits : j >= k].v]

\* response.get("translated", ""): ok = FALSE stands for the AttributeError
\* of calling .get on a value that is not a dict
ResponseGet(data) ==
    IF data.t # "dict" THEN [ok |-> FALSE, val |-> JOther("NoneType")]
    ELSE LastValue(data.kv, {j \in 1..Len(data.kv) : data.kv[j].k = Translated})

(* ------------------------------ inputs --------------------------------- *)
ToLangs == {"English"}
Prompts == {"p1", "p2"}
\* response.usage.total_tokens of a reply
Usages == {10, 15}
\* exceptions the chat-completion client raises
TransportErrors == {"APIConnectionError", "RateLimitError"}

\* every list of at most MaxBatch segments
Batches == UNION {[1..n -> Prompts] : n \in 0..MaxBatch}

HelloThere == <<"h", "e", "l", "l", "o", " ", "t", "h", "e", "r", "e">>
\* {"translated":
WellFormedHead == <<LBRACE, QUOTE>> \o Translated \o <<QUOTE, ":", " ">>

\* {"translated": "hi"}
ReplyGood == WellFormedHead \o <<QUOTE, "h", "i", QUOTE, RBRACE>>
\* <think>x</think>{"translated": "hi"}
ReplyThink == ThinkOpen \o <<"x">> \o ThinkClose \o ReplyGood
\* 42
ReplyNumber == <<"4", "2">>
\* null
ReplyNull == <<"n", "u", "l", "l">>
\* "hi"
ReplyString == <<QUOTE, "h", "i", QUOTE>>
\* [1]
ReplyList == <<"[", "1", "]">>
\* {"other": "x"}
ReplyNoField ==
    <<LBRACE, QUOTE, "o", "t", "h", "e", "r", QUOTE, ":", " ", QUOTE, "x", QUOTE, RBRACE>>
\* translated: hello there
ReplyBareKey == Translated \o <<":", " ">> \o HelloThere
\* {translated: hello there}
ReplyBracedKey == <<LBRACE>> \o ReplyBareKey \o <<RBRACE>>
\* {"translated": 5}
ReplyNonStr == WellFormedHead \o <<"5", RBRACE>>
\* {"translated": "hi"
ReplyUnclosed == WellFormedHead \o <<QUOTE, "h", "i", QUOTE>>

\* characters of the string value of a generated well-formed reply
ValueChars == {"a", LBRACE, RBRACE, QUOTE}
ValueStrings == UNION {[1..n -> ValueChars] : n \in 0..MaxStrLen}

\* the JSON text of the string s, as a well-behaved model writes it
RECURSIVE JsonEscape(_)
JsonEscape(s) ==
    IF s = <<>> THEN <<>>
    ELSE (IF Head(s) \in {QUOTE, BACKSLASH} THEN <<BACKSLASH, Head(s)>>
          ELSE <<Head(s)>>) \o JsonEscape(Tail(s))

\* {"translated": "<s>"}
WellFormedReply(s) ==
    WellFormedHead \o <<QUOTE>> \o JsonEscape(s) \o <<QUOTE, RBRACE>>

\* replies of the conversation specification
CoreReplies == {ReplyGood, ReplyBareKey, ReplyNumber}
\* replies of the reply-pipeline specification
MalformedReplies ==
    {ReplyThink, ReplyNumber, ReplyNull, ReplyString, ReplyList, ReplyNoField,
     ReplyBareKey, ReplyBracedKey, ReplyNonStr, ReplyUnclosed}
ParseReplies == {WellFormedReply(s) : s \in ValueStrings} \cup MalformedReplies

(* ------------------------------ conversation --------------------------- *)
Msg(role, content) == [role |-> role, content |-> content]

\* self.messages as __init__ leaves it
SeedMessages ==
    <<Msg("user", <<"chat_sample[0]">>), Msg("assistant", <<"chat_sample[1]">>)>>

\* prompt_with_lang, as the pieces of the f-string
PromptWithLang(lang, prompt) ==
    <<"Translate the following text into ", lang,
      ". Return the result in JSON format.\n\n{\"untranslated\": \"", prompt, "\"}\n">>

SystemMsg(lang) ==
    Msg("system", <<"chat_system_template", lang, "_GLOSSARY_SNIPPET">>)

\* seq[-n:] of Python
PyLastN(seq, n) ==
    IF n = 0 THEN seq
    ELSE IF n > 0 THEN (IF n >= Len(seq) THEN seq
                        ELSE SubSeq(seq, Len(seq) - n + 1, Len(seq)))
    ELSE Tail1(seq, 1 - n)

\* self.messages.append({'role': 'user', ...})
AppendUser(msgs, lang, prompt) ==
    Append(msgs, Msg("user", PromptWithLang(lang, prompt)))

\* if len(self.messages) > self._MAX_CONTEXT: keep the last _MAX_CONTEXT
TruncateContext(msgs) ==
    IF Len(msgs) > MAX_CONTEXT THEN PyLastN(msgs, MAX_CONTEXT) ELSE msgs

\* faulty step 9: without retention the last entry is popped whatever it is
RetainContextPopAlways(msgs, json_str) ==
    IF CONTEXT_RETENTION THEN Append(msgs, Msg("assistant", json_str))
    ELSE IF msgs # <<>> THEN SubSeq(msgs, 1, Len(msgs) - 1)
    ELSE msgs

\* faulty step 9: the fallback text is kept instead of the candidate
RetainContextFallback(msgs, json_str) ==
    IF CONTEXT_RETENTION THEN Append(msgs, Msg("assistant", Fallback(json_str)))
    ELSE IF msgs # <<>> /\ msgs[Len(msgs)].role = "assistant"
         THEN SubSeq(msgs, 1, Len(msgs) - 1)
    ELSE msgs

\* step 9: keep the reply as an assistant turn, or pop a trailing one
RetainContext(msgs, json_str) ==
    IF CONTEXT_RETENTION THEN Append(msgs, Msg("assistant", json_str))
    ELSE IF msgs # <<>> /\ msgs[Len(msgs)].role = "assistant"
         THEN SubSeq(msgs, 1, Len(msgs) - 1)
    ELSE msgs

\* faulty step 4: = where += is meant
CountTokensOverwrite(count, usage) == usage

\* self.token_count += response.usage.total_tokens
CountTokens(count, usage) == count + usage

(* ------------------------------ outcomes ------------------------------- *)
NoOutcome == [kind |-> "none", exc |-> "", value |-> <<>>]
Returned(v) == [kind |-> "returned", exc |-> "", value |-> v]
Raised(e) == [kind |-> "raised", exc |-> e, value |-> <<>>]

\* the adapter's fields, as a call finds or leaves them
Snapshot(m, tc, tcl) ==
    [messages |-> m, token_count |-> tc, token_count_last |-> tcl]
NoSnapshot == Snapshot(<<>>, 0, 0)
NoResult == [ok |-> FALSE, val |-> JOther("NoneType")]

\* the last entry of callLog, completed
CloseCall(status, usage, reply, error, post, out) ==
    [callLog EXCEPT ![Len(callLog)] =
        [@ EXCEPT !.status = status, !.usage = usage, !.reply = reply,
                  !.error = error, !.post = post, !.out = out]]

(* ------------------------------ operations ----------------------------- *)
Init ==
    /\ CONTEXT_RETENTION \in BOOLEAN
    /\ MAX_CONTEXT \in 0..MaxCtx
    /\ messages = SeedMessages
    /\ token_count = 0
    /\ token_count_last = 0
    /\ pc = "idle"
    /\ to_lang = "English"
    /\ queries = <<>>
    /\ pos = 1
    /\ results = <<>>
    /\ outcome = NoOutcome
    /\ batchStart = 0
    /\ callLog = <<>>

\* _translate is entered with the segments q; budget caps the calls issued
TranslateWith(q, lang, budget) ==
    /\ pc = "idle"
    /\ Len(callLog) + Len(q) <= budget
    /\ pc' = "loop"
    /\ to_lang' = lang
    /\ queries' = q
    /\ pos' = 1
    /\ results' = <<>>
    /\ outcome' = NoOutcome
    /\ batchStart' = Len(callLog)
    /\ UNCHANGED <<CONTEXT_RETENTION, MAX_CONTEXT, messages, token_count,
                   token_count_last, callLog>>

Translate == \E q \in Batches, lang \in ToLangs : TranslateWith(q, lang, MaxCalls)

\* _request_translation up to the await: the user turn is appended, the
\* window is cut and the call is issued
RequestTranslation ==
    /\ pc = "loop"
    /\ pos <= Len(queries)
    /\ LET m == TruncateContext(AppendUser(messages, to_lang, queries[pos]))
       IN /\ messages' = m
          /\ callLog' = Append(callLog,
                [seg |-> pos, prompt |-> queries[pos],
                 turn |-> Msg("user", PromptWithLang(to_lang, queries[pos])),
                 sent |-> <<SystemMsg(to_lang)>> \o m,
                 status |-> "pending", usage |-> 0, reply |-> <<>>,
                 error |-> "",
                 pre |-> Snapshot(messages, token_count, token_count_last),
                 post |-> NoSnapshot, out |-> NoResult])
    /\ pc' = "awaiting"
    /\ UNCHANGED <<CONTEXT_RETENTION, MAX_CONTEXT, token_count,
                   token_count_last, to_lang, queries, pos, results, outcome,
                   batchStart>>

\* the rest of _request_translation and the loop body of _translate, for
\* the reply raw with candidate json_str and looked-up value got
FinishRequest(raw, usage, json_str, got) ==
    /\ token_count' = CountTokens(token_count, usage)
    /\ token_count_last' = usage
    /\ messages' = RetainContext(messages, json_str)
    /\ callLog' = CloseCall("ok", usage, raw, "",
                            Snapshot(messages', token_count', usage), got)
    /\ IF got.ok
       THEN /\ results' = Append(results, got.val)
            /\ pos' = pos + 1
            /\ pc' = "loop"
            /\ UNCHANGED outcome
       ELSE /\ outcome' = Raised("AttributeError")
            /\ pc' = "idle"
            /\ UNCHANGED <<results, pos>>
    /\ UNCHANGED <<CONTEXT_RETENTION, MAX_CONTEXT, to_lang, queries, batchStart>>

\* the call returns the text raw and the usage `usage`
ClientReturns(raw, usage) ==
    /\ pc = "awaiting"
    /\ FinishRequest(raw, usage, JsonStrOf(raw),
                     ResponseGet(LoadOrFallback(JsonStrOf(raw))))

CallReturns == \E raw \in CoreReplies, usage \in Usages : ClientReturns(raw, usage)

\* faulty handling: the error is caught and the partial results returned
ClientRaisesSwallowed(e) ==
    /\ pc = "awaiting"
    /\ outcome' = Returned(results)
    /\ pc' = "idle"
    /\ callLog' = CloseCall("failed", 0, <<>>, e,
                            Snapshot(messages, token_count, token_count_last),
                            NoResult)
    /\ UNCHANGED <<CONTEXT_RETENTION, MAX_CONTEXT, messages, token_count,
                   token_count_last, to_lang, queries, pos, results, batchStart>>

\* faulty handling: the user turn and its eviction are undone before raising
ClientRaisesRollback(e) ==
    /\ pc = "awaiting"
    /\ outcome' = Raised(e)
    /\ pc' = "idle"
    /\ messages' = callLog[Len(callLog)].pre.messages
    /\ callLog' = CloseCall("failed", 0, <<>>, e,
                            Snapshot(messages', token_count, token_count_last),
                            NoResult)
    /\ UNCHANGED <<CONTEXT_RETENTION, MAX_CONTEXT, token_count,
                   token_count_last, to_lang, queries, pos, results, batchStart>>

\* the call raises e: nothing catches it, _translate ends with it
ClientRaises(e) ==
    /\ pc = "awaiting"
    /\ outcome' = Raised(e)
    /\ pc' = "idle"
    /\ callLog' = CloseCall("failed", 0, <<>>, e,
                            Snapshot(messages, token_count, token_count_last),
                            NoResult)
    /\ UNCHANGED <<CONTEXT_RETENTION, MAX_CONTEXT, messages, token_count,
                   token_count_last, to_lang, queries, pos, results, batchStart>>

CallFails == \E e \in TransportErrors : ClientRaises(e)

\* the loop is exhausted: the totals are logged and results returned
ReturnResults ==
    /\ pc = "loop"
    /\ pos > Len(queries)
    /\ outcome' = Returned(results)
    /\ pc' = "idle"
    /\ UNCHANGED <<CONTEXT_RETENTION, MAX_CONTEXT, messages, token_count,
                   token_count_last, to_lang, queries, pos, results, batchStart,
                   callLog>>

Next == Translate \/ RequestTranslation \/ CallReturns \/ CallFails \/ ReturnResults

Spec == Init /\ [][Next]_vars

\* the reply pipeline: batches of one call, every reply of ParseReplies
ParseTranslate ==
    \E q \in Batches, lang \in ToLangs : TranslateWith(q, lang, MaxParseCalls)

ParseCallReturns ==
    \E raw \in ParseReplies, usage \in Usages : ClientReturns(raw, usage)

NextParse ==
    ParseTranslate \/ RequestTranslation \/ ParseCallReturns \/ CallFails \/ ReturnResults

SpecParse == Init /\ [][NextParse]_vars

(* ------------------------------ properties ----------------------------- *)
Last(seq) == seq[Len(seq)]
CountRole(msgs, role) == Cardinality({k \in 1..Len(msgs) : msgs[k].role = role})
OkCalls == {k \in 1..Len(callLog) : callLog[k].status = "ok"}
FailedCalls == {k \in 1..Len(callLog) : callLog[k].status = "failed"}
\* the calls of the running (or last) _translate
BatchCalls == Tail1(callLog, batchStart + 1)
\* the usages of the calls that returned, oldest first
RECURSIVE OkUsages(_)
OkUsages(log) ==
    IF log = <<>> THEN <<>>
    ELSE (IF Head(log).status = "ok" THEN <<Head(log).usage>> ELSE <<>>)
         \o OkUsages(Tail(log))
RECURSIVE SumSeq(_)
SumSeq(seq) == IF seq = <<>> THEN 0 ELSE Head(seq) + SumSeq(Tail(seq))
\* the outer characters a clean fallback string may not have
StrayChars == {QUOTE, "'", LBRACE, RBRACE}

\* C1: once a request has returned, self.messages holds at most MAX_CONTEXT
\* entries, and they are the most recent entries in their original order.
\* Stated for a positive MAX_CONTEXT and a request whose segment was
\* translated, the cases no reading of the claim leaves out.
C1_WindowNeverExceeded ==
    MAX_CONTEXT >= 1 =>
        \A k \in OkCalls :
            LET c == callLog[k]
                full == Append(c.pre.messages, c.turn)
                        \o (IF CONTEXT_RETENTION
                            THEN <<Msg("assistant", JsonStrOf(c.reply))>> ELSE <<>>)
                kept == c.post.messages
            IN c.out.ok =>
                /\ Len(kept) <= MAX_CONTEXT
                /\ Len(kept) <= Len(full)
                /\ kept = SubSeq(full, Len(full) - Len(kept) + 1, Len(full))

\* C2: whatever text the completion call returns, the segment yields a
\* string and _translate does not raise.
C2_MalformedNeverRaises ==
    /\ \A k \in OkCalls : callLog[k].out.ok /\ callLog[k].out.val.t = "str"
    /\ outcome.kind = "raised" => outcome.exc \in TransportErrors

\* C3: a reply {"translated": s} yields exactly s, for every string s.
C3_WellFormedReturnedExactly ==
    \A k \in OkCalls : \A s \in ValueStrings :
        callLog[k].reply = WellFormedReply(s)
            => callLog[k].out = [ok |-> TRUE, val |-> JStr(s)]

\* C4 as stated: with retention disabled a completed request leaves
\* self.messages with as many entries as before the request.
C4_SizeUnchanged ==
    ~CONTEXT_RETENTION =>
        \A k \in OkCalls :
            Len(callLog[k].post.messages) = Len(callLog[k].pre.messages)

\* C4 as amended: with retention disabled a completed request leaves the
\* request's user turn and no assistant turn behind: one entry more than
\* before, cut to MAX_CONTEXT entries when that exceeds a positive MAX_CONTEXT.
C4_GrowsByUserTurn ==
    ~CONTEXT_RETENTION =>
        \A k \in OkCalls :
            LET c == callLog[k]
                grown == Len(c.pre.messages) + 1
            IN /\ Len(c.post.messages) =
                    IF MAX_CONTEXT > 0 /\ grown > MAX_CONTEXT THEN MAX_CONTEXT ELSE grown
               /\ Last(c.post.messages) = c.turn
               /\ CountRole(c.post.messages, "assistant")
                    <= CountRole(c.pre.messages, "assistant")

C4_Witness ==
    /\ ~CONTEXT_RETENTION
    /\ \E k \in OkCalls :
        Len(callLog[k].post.messages) = Len(callLog[k].pre.messages) + 1
    /\ \E k \in OkCalls :
        /\ MAX_CONTEXT > 0
        /\ Len(callLog[k].pre.messages) = MAX_CONTEXT
        /\ Len(callLog[k].post.messages) = MAX_CONTEXT

\* C5: a request that returns appends one assistant turn holding its
\* candidate text exactly when retention is enabled; with retention disabled
\* the assistant turns never increase and only the seed's one is ever present.
C5_AssistantTurnIffRetention ==
    /\ \A k \in OkCalls :
        LET c == callLog[k]
        IN IF CONTEXT_RETENTION
           THEN c.post.messages =
                    Append(Tail(c.sent), Msg("assistant", JsonStrOf(c.reply)))
           ELSE /\ c.post.messages = Tail(c.sent)
                /\ CountRole(c.post.messages, "assistant")
                     <= CountRole(c.pre.messages, "assistant")
    /\ ~CONTEXT_RETENTION =>
        \A k \in 1..Len(messages) :
            messages[k].role = "user" \/ messages[k] = SeedMessages[2]

C5_Witness ==
    /\ CONTEXT_RETENTION
    /\ pc = "loop"
    /\ callLog # <<>>
    /\ Last(callLog).status = "ok"
    /\ Last(callLog).reply = ReplyBareKey
    /\ Last(messages) = Msg("assistant", ReplyBareKey)
    /\ CountRole(messages, "assistant") = 2

\* C6: both counters start at zero; token_count is the sum of the usages
\* of the calls that returned and token_count_last the usage of the last one.
C6_CountersSumAndLast ==
    LET us == OkUsages(callLog)
    IN /\ token_count = SumSeq(us)
       /\ token_count_last = IF us = <<>> THEN 0 ELSE Last(us)

C6_Witness ==
    /\ OkUsages(callLog) = <<10, 15>>
    /\ token_count = 25
    /\ token_count_last = 15

\* C7: when the candidate fails json.loads, the string returned carries no
\* leading `translated` key and no leading or trailing quote or brace.
C7_FallbackIsClean ==
    \A k \in OkCalls :
        LET c == callLog[k]
            r == c.out.val.s
        IN ~JsonLoads(JsonStrOf(c.reply)).ok =>
            /\ c.out.ok
            /\ c.out.val.t = "str"
            /\ StripKeyPrefix(r) = r
            /\ r # <<>> => r[1] \notin StrayChars /\ Last(r) \notin StrayChars

\* C8: n segments give exactly n calls, one per segment in input order, each
\* issued after the previous one's update, and n strings, the k-th from the
\* k-th reply.
C8_OneCallPerSegment ==
    LET bc == BatchCalls
    IN /\ \A k \in 1..Len(bc) : bc[k].seg = k /\ bc[k].prompt = queries[k]
       /\ pc = "awaiting" =>
            /\ Len(results) = Len(bc) - 1
            /\ \A k \in 1..(Len(bc) - 1) : bc[k].status = "ok"
       /\ (/\ pc = "idle"
           /\ outcome.kind # "none"
           /\ \A k \in 1..Len(bc) : bc[k].status # "failed") =>
            /\ outcome.kind = "returned"
            /\ Len(bc) = Len(queries)
            /\ Len(outcome.value) = Len(queries)
            /\ \A k \in 1..Len(bc) :
                /\ outcome.value[k] = ResponseGet(ParseReply(bc[k].reply)).val
                /\ outcome.value[k].t = "str"

\* C9: a transport error at segment k ends _translate with that very
\* error: no retry, no call for a later segment, no strings returned.
C9_TransportErrorAborts ==
    LET bc == BatchCalls
    IN \A k \in 1..Len(bc) :
        bc[k].status = "failed" =>
            /\ k = Len(bc)
            /\ pc = "idle"
            /\ outcome = Raised(bc[k].error)
            /\ outcome.value = <<>>
            /\ \A j \in 1..k : bc[j].seg = j /\ bc[j].prompt = queries[j]
            /\ \A j \in 1..(k - 1) : bc[j].status = "ok"

C9_Witness ==
    /\ Len(queries) = 2
    /\ Len(BatchCalls) = 2
    /\ BatchCalls[1].status = "ok"
    /\ BatchCalls[2].status = "failed"
    /\ Len(results) = 1
    /\ outcome = Raised("RateLimitError")

\* the part of C10 that does not depend on the window: after a failed call
\* the counters are as before the request and self.messages is what was
\* sent, the failed segment's user turn last
FailureLeavesTurn ==
    (callLog # <<>> /\ Last(callLog).status = "failed") =>
        LET c == Last(callLog)
        IN /\ token_count = c.pre.token_count
           /\ token_count_last = c.pre.token_count_last
           /\ messages = Tail(c.sent)
           /\ Last(messages) = c.turn

\* C10 as stated: a failed call leaves the counters alone and its user turn
\* in place, so the next request is sent with two consecutive user turns.
C10_NextRequestTwoUserTurns ==
    /\ FailureLeavesTurn
    /\ \A k \in FailedCalls :
        k < Len(callLog) =>
            LET n == callLog[k + 1].sent
            IN /\ Len(n) >= 3
               /\ n[Len(n)] = callLog[k + 1].turn
               /\ n[Len(n) - 1] = callLog[k].turn

\* C10 as amended (MAX_CONTEXT >= 0): as stated when MAX_CONTEXT is not 1;
\* with MAX_CONTEXT = 1
\* the next request's own truncation evicts the failed user turn and the
\* request is sent with its own user turn only.
C10_NextRequestUnlessWindowOfOne ==
    /\ FailureLeavesTurn
    /\ \A k \in FailedCalls :
        k < Len(callLog) =>
            LET n == callLog[k + 1].sent
            IN IF MAX_CONTEXT = 1
               THEN Tail(n) = <<callLog[k + 1].turn>>
               ELSE /\ Len(n) >= 3
                    /\ n[Len(n)] = callLog[k + 1].turn
                    /\ n[Len(n) - 1] = callLog[k].turn

C10_Witness ==
    /\ CONTEXT_RETENTION
    /\ MAX_CONTEXT >= 2
    /\ pc = "awaiting"
    /\ Len(callLog) >= 2
    /\ callLog[Len(callLog) - 1].status = "failed"
    /\ LET n == Last(callLog).sent
       IN /\ n[Len(n)].role = "user"
          /\ n[Len(n) - 1] = callLog[Len(callLog) - 1].turn
====
